---- MODULE Spec2Model ----
(***************************************************************************)
(* bao: packages ("buns") and repositories ("bakeries").                   *)
(*                                                                         *)
(* Model of src/bao/utils.py (_fill_defaults, valid_module_path) and of    *)
(* src/bao/abstract.py (Package, Repository).  Python dictionaries are     *)
(* functions from keys to values, exceptions are result records            *)
(* [exc, arg, ...] with exc = None for a normal return.  The import        *)
(* 'from picaro.exceptions import PicaroError' of utils.py is taken to     *)
(* resolve (an installed distribution), so that the modules load.          *)
(***************************************************************************)
EXTENDS Integers, Sequences, FiniteSets, TLC

VARIABLES
    dicts,   \* heap of caller-owned metadata dict objects: dict id -> dict
    dicts0,  \* history: the heap as it was initially
    pkgs,    \* Package objects: package id -> [mainscript, metadata, modules]
    fs,      \* module files and directories on disk: absolute path -> kind
    repo,    \* the Repository object: [name, packages]
    out,     \* files written by Repository.build: set of [dir, name, content]
    pc,      \* position inside Repository.build ("idle" outside of it)
    frame,   \* locals of the Repository.build call in progress
    ret,     \* the last call and its outcome (a change of the disk counts as one)
    hist     \* history of calls: [added, offered]

vars == <<dicts, dicts0, pkgs, fs, repo, out, pc, frame, ret, hist>>

-----------------------------------------------------------------------------
(* Bounds *)

\* number of Package objects a run constructs
NPkgs == 2

PkgIds == 1..NPkgs

Scripts == {"s1", "s2"}

-----------------------------------------------------------------------------
(* Python values *)

None == "None"

EmptyDict == [k \in {} |-> None]

\* data[key] = value
Put(data, key, value) ==
    [k \in DOMAIN data \cup {key} |-> IF k = key THEN value ELSE data[k]]

\* data.get(key, default)
Get(data, key, default) ==
    IF key \in DOMAIN data THEN data[key] ELSE default

\* del data[key]
Del(data, key) == [k \in DOMAIN data \ {key} |-> data[k]]

\* a normal return / a raised exception
Return(val) == [exc |-> None, arg |-> None, val |-> val]
Raise(exc, arg) == [exc |-> exc, arg |-> arg, val |-> None]

-----------------------------------------------------------------------------
(* utils.py: the metadata schema and _fill_defaults *)

\* the schema, in the dict's insertion order; None marks a required field
PACKAGE_ATTRIBUTES ==
    << [key |-> "name",       value |-> None],
       [key |-> "author",     value |-> None],
       [key |-> "license",    value |-> None],
       [key |-> "copyright",  value |-> None],
       [key |-> "version",    value |-> None],
       [key |-> "doc",        value |-> ""],
       [key |-> "maintainer", value |-> ""],
       [key |-> "email",      value |-> ""] >>

\* a bug: every schema value, None included, is taken as a default
FillKeyNoRaise(data, key, value) ==
    LET result == Get(data, key, None)
    IN  IF result = None
        THEN [exc |-> None, arg |-> None, data |-> Put(data, key, value)]
        ELSE [exc |-> None, arg |-> None, data |-> data]

\* a bug: the default is stored whether or not the key has a value
FillKeyOverwrite(data, key, value) ==
    IF value # None
    THEN [exc |-> None, arg |-> None, data |-> Put(data, key, value)]
    ELSE IF Get(data, key, None) = None
         THEN [exc |-> "KeyError", arg |-> key, data |-> data]
         ELSE [exc |-> None, arg |-> None, data |-> data]

\* one iteration of the loop of _fill_defaults
FillKey(data, key, value) ==
    LET result == Get(data, key, None)
    IN  IF result = None
        THEN IF value # None
             THEN [exc |-> None, arg |-> None, data |-> Put(data, key, value)]
             ELSE [exc |-> "KeyError", arg |-> key, data |-> data]
        ELSE [exc |-> None, arg |-> None, data |-> data]

\* the loop over defaults.items(), from item i on; the raise ends it
RECURSIVE FillLoop(_, _, _)
FillLoop(data, defaults, i) ==
    IF i > Len(defaults)
    THEN [exc |-> None, arg |-> None, data |-> data]
    ELSE LET r == FillKey(data, defaults[i].key, defaults[i].value)
         IN  IF r.exc # None THEN r ELSE FillLoop(r.data, defaults, i + 1)

\* _fill_defaults(data, defaults): data is mutated in place; the result
\* carries the dict as the call leaves it
_fill_defaults(data, defaults) == FillLoop(data, defaults, 1)

-----------------------------------------------------------------------------
(* Paths and the filesystem *)

\* a file name is <<stem, suffix>>; a path is a sequence of names
PyName(stem) == <<stem, ".py">>
InitName == PyName("__init__")
EndsWithPy(name) == name[2] = ".py"

\* the working directory, as an absolute path
Cwd == << <<"w", "">> >>

\* pathlib.Path(p).resolve(): a relative path is taken from the working directory
Resolve(path) == Cwd \o path

\* the relative paths callers hand to add_module and valid_module_path
ModPaths == { << PyName("mod") >>, << <<"lib", "">> >> }

\* every path whose state on disk the model tracks
FsPaths == { Resolve(p) : p \in ModPaths } \cup { Resolve(<< <<"lib", "">>, InitName >>) }

Parent(path) == SubSeq(path, 1, Len(path) - 1)

\* Path.is_file() / Path.is_dir()
is_file(disk, path) == path \in DOMAIN disk /\ disk[path] = "file"
is_dir(disk, path) == path = Cwd \/ (path \in DOMAIN disk /\ disk[path] = "dir")

\* names bound at module level in utils.py (imports, constants, functions)
UtilsGlobals ==
    { "importlib", "shutil", "sys", "PicaroError", "PACKAGE_ATTRIBUTES",
      "_fill_defaults", "valid_module_path", "copypath", "autogen_metadata" }

\* valid_module_path(path): utils.py never imports pathlib, so its first
\* statement, pathlib.Path(path), raises NameError
valid_module_path(disk, path) ==
    IF "pathlib" \notin UtilsGlobals
    THEN Raise("NameError", "pathlib")
    ELSE IF is_file(disk, path) /\ EndsWithPy(path[Len(path)])
         THEN Return(TRUE)
         ELSE IF is_dir(disk, path) /\ is_file(disk, path \o <<InitName>>)
              THEN Return(TRUE)
              ELSE Return(FALSE)

-----------------------------------------------------------------------------
(* The outcome of the last call, and the call history *)

Ret(op, pkg, path, r, input) ==
    [op |-> op, pkg |-> pkg, path |-> path,
     exc |-> r.exc, arg |-> r.arg, val |-> r.val, input |-> input]

\* what a path is on disk: "absent", "file", "dir", or "pkgdir" for a
\* directory that holds __init__.py
KindOf(disk, path) ==
    IF is_dir(disk, path) /\ is_file(disk, path \o <<InitName>>)
    THEN "pkgdir"
    ELSE IF path \in DOMAIN disk THEN disk[path] ELSE "absent"

NoOffer == [pkg |-> 0, path |-> <<>>, kind |-> "absent"]

MoveToEnd(seq, x) == Append(SelectSeq(seq, LAMBDA y : y # x), x)

-----------------------------------------------------------------------------
(* abstract.py: Package *)

\* Package(mainscript, metadata) with the caller's dict object d:
\* self.metadata is that very object, which _fill_defaults mutates
Construct(p, mainscript, d) ==
    /\ pc = "idle"
    /\ p \notin DOMAIN pkgs
    /\ LET r == _fill_defaults(dicts[d], PACKAGE_ATTRIBUTES)
           self == [mainscript |-> mainscript, metadata |-> d, modules |-> <<>>]
       IN  /\ dicts' = [dicts EXCEPT ![d] = r.data]
           /\ pkgs' = IF r.exc = None
                      THEN [q \in DOMAIN pkgs \cup {p} |->
                                IF q = p THEN self ELSE pkgs[q]]
                      ELSE pkgs
           /\ ret' = Ret("Package", p, <<>>, Raise(r.exc, r.arg), dicts[d])
    /\ UNCHANGED <<dicts0, fs, repo, out, pc, frame, hist>>

\* utils._fill_defaults(data, PACKAGE_ATTRIBUTES) called on dict object d
CallFillDefaults(d) ==
    /\ pc = "idle"
    /\ LET r == _fill_defaults(dicts[d], PACKAGE_ATTRIBUTES)
       IN  /\ dicts' = [dicts EXCEPT ![d] = r.data]
           /\ ret' = Ret("_fill_defaults", 0, <<>>, Raise(r.exc, r.arg), dicts[d])
    /\ UNCHANGED <<dicts0, pkgs, fs, repo, out, pc, frame, hist>>

\* utils.valid_module_path(path)
CallValidModulePath(path) ==
    /\ pc = "idle"
    /\ ret' = Ret("valid_module_path", 0, Resolve(path),
                  valid_module_path(fs, Resolve(path)), EmptyDict)
    /\ UNCHANGED <<dicts, dicts0, pkgs, fs, repo, out, pc, frame, hist>>

\* Package.add_module(path_to_module)
add_module(p, path_to_module) ==
    /\ pc = "idle"
    /\ p \in DOMAIN pkgs
    /\ LET path == Resolve(path_to_module)
           v == valid_module_path(fs, path)
           r == IF v.exc # None THEN v
                ELSE IF ~v.val THEN Raise("PackageError", path)
                ELSE Return(None)
       IN  /\ pkgs' = IF r.exc = None
                      THEN [pkgs EXCEPT ![p].modules = Append(@, path)]
                      ELSE pkgs
           /\ ret' = Ret("add_module", p, path, r, EmptyDict)
    /\ UNCHANGED <<dicts, dicts0, fs, repo, out, pc, frame>>

AddModule(p, path_to_module) ==
    /\ add_module(p, path_to_module)
    /\ UNCHANGED hist

\* the same call, with the path and what it was on disk kept in the history
AddModuleLogged(p, path_to_module) ==
    /\ add_module(p, path_to_module)
    /\ hist' = [hist EXCEPT !.offered =
                   [pkg |-> p, path |-> Resolve(path_to_module),
                    kind |-> KindOf(fs, Resolve(path_to_module))]]

\* a bug: the key is popped from the metadata while the file name is made
ScriptFnamePop(md) ==
    IF "name" \notin DOMAIN md
    THEN [exc |-> "KeyError", arg |-> "name", val |-> None, data |-> md]
    ELSE IF md["name"] = None
         THEN [exc |-> "TypeError", arg |-> "name", val |-> None, data |-> Del(md, "name")]
         ELSE [exc |-> None, arg |-> None, val |-> PyName(md["name"]), data |-> Del(md, "name")]

\* script_fname = self.metadata["name"] + ".py"; data is the metadata as the
\* statement leaves it
ScriptFname(md) ==
    IF "name" \notin DOMAIN md
    THEN [exc |-> "KeyError", arg |-> "name", val |-> None, data |-> md]
    ELSE IF md["name"] = None
         THEN [exc |-> "TypeError", arg |-> "name", val |-> None, data |-> md]
         ELSE [exc |-> None, arg |-> None, val |-> PyName(md["name"]), data |-> md]

\* toml.dumps of a flat dict: a key whose value is None is left out
TomlDumps(md) == [k \in {k \in DOMAIN md : md[k] # None} |-> md[k]]

\* the loop over self.modules, from module i on, appending to the archive's
\* entries: a directory goes to utils.zipdir, which utils.py does not define;
\* a file is written under its own path (ZipFile.write without arcname drops
\* only the leading separator); anything else is skipped
RECURSIVE ZipModules(_, _, _, _)
ZipModules(disk, modules, i, entries) ==
    IF i > Len(modules)
    THEN Return(entries)
    ELSE IF is_dir(disk, modules[i])
         THEN IF "zipdir" \notin UtilsGlobals
              THEN Raise("AttributeError", "zipdir")
              ELSE ZipModules(disk, modules, i + 1, entries)
         ELSE IF is_file(disk, modules[i])
              THEN ZipModules(disk, modules, i + 1,
                              Append(entries, [arcname |-> modules[i],
                                               content |-> modules[i]]))
              ELSE ZipModules(disk, modules, i + 1, entries)

\* Package.build(): the result, and the metadata dict as the call leaves it
Build(self, md, disk) ==
    LET s == ScriptFname(md)
    IN  IF s.exc # None
        THEN s
        ELSE IF "EMPTY_ZIP_FILE" \notin UtilsGlobals
        THEN [exc |-> "AttributeError", arg |-> "EMPTY_ZIP_FILE", val |-> None, data |-> s.data]
        ELSE LET z == ZipModules(disk, self.modules, 1, <<>>)
             IN  IF z.exc # None
                 THEN [exc |-> z.exc, arg |-> z.arg, val |-> None, data |-> s.data]
                 ELSE [exc |-> None, arg |-> None,
                       val |-> [entries |-> Append(z.val, [arcname |-> <<s.val>>,
                                                           content |-> self.mainscript]),
                                comment |-> TomlDumps(s.data)],
                       data |-> s.data]

\* a call of Package.build() on package p
PackageBuild(p) ==
    /\ pc = "idle"
    /\ p \in DOMAIN pkgs
    /\ LET d == pkgs[p].metadata
           r == Build(pkgs[p], dicts[d], fs)
       IN  /\ dicts' = [dicts EXCEPT ![d] = r.data]
           /\ ret' = Ret("Package.build", p, <<>>, r, EmptyDict)
    /\ UNCHANGED <<dicts0, pkgs, fs, repo, out, pc, frame, hist>>

-----------------------------------------------------------------------------
(* abstract.py: Repository *)

\* self.packages is a dict, kept as the sequence of its items in insertion order
DictKeys(items) == { items[i].key : i \in 1..Len(items) }

\* del items[key]
DictDel(items, key) == SelectSeq(items, LAMBDA e : e.key # key)

NotAPackage == 0

IndexName == <<"BAKERY", ".toml">>

\* the directories Repository.build is asked to build into
OutDirs == {"out"}

NoFrame == [path |-> "", metadata |-> EmptyDict]

\* open(name, "w") in directory dir followed by a write of content
WriteFile(files, dir, name, content) ==
    { f \in files : ~(f.dir = dir /\ f.name = name) }
        \cup { [dir |-> dir, name |-> name, content |-> content] }

\* Repository.add_package(package): after the isinstance test the key
\* expression package.metadata[name] reads a name bound nowhere
add_package(obj) ==
    /\ pc = "idle"
    /\ obj \in DOMAIN pkgs \cup {NotAPackage}
    /\ LET r == IF obj \notin DOMAIN pkgs
                THEN Raise("RepositoryError", "package")
                ELSE Raise("NameError", "name")
       IN  ret' = Ret("add_package", obj, <<>>, r, EmptyDict)
    /\ UNCHANGED <<dicts, dicts0, pkgs, fs, repo, out, pc, frame>>

AddPackage(obj) ==
    /\ add_package(obj)
    /\ UNCHANGED hist

\* the same call, with the Package objects handed in kept in the history, in
\* the order of their latest call
AddPackageLogged(obj) ==
    /\ add_package(obj)
    /\ hist' = IF obj \in DOMAIN pkgs
               THEN [hist EXCEPT !.added = MoveToEnd(@, obj)]
               ELSE hist

\* Repository.del_package(package)
DelPackage(key) ==
    /\ pc = "idle"
    /\ IF key \in DictKeys(repo.packages)
       THEN /\ repo' = [repo EXCEPT !.packages = DictDel(@, key)]
            /\ ret' = Ret("del_package", 0, <<>>, Return(None), EmptyDict)
       ELSE /\ repo' = repo
            /\ ret' = Ret("del_package", 0, <<>>, Raise("KeyError", key), EmptyDict)
    /\ UNCHANGED <<dicts, dicts0, pkgs, fs, out, pc, frame, hist>>

\* the property Repository.metadata: the first iteration of its loop stores
\* pobj.metadata and then deletes from 'metadata', a name bound nowhere
RepositoryMetadata(self) ==
    IF Len(self.packages) = 0
    THEN Return(EmptyDict)
    ELSE Raise("NameError", "metadata")

\* a read of repo.metadata
ReadMetadata ==
    /\ pc = "idle"
    /\ ret' = Ret("Repository.metadata", 0, <<>>, RepositoryMetadata(repo), EmptyDict)
    /\ UNCHANGED <<dicts, dicts0, pkgs, fs, repo, out, pc, frame, hist>>

\* Repository.build(path), up to the evaluation of self.metadata
RepoBuildCall(path) ==
    /\ pc = "idle"
    /\ LET m == RepositoryMetadata(repo)
       IN  IF m.exc # None
           THEN /\ ret' = Ret("Repository.build", 0, <<>>, m, EmptyDict)
                /\ UNCHANGED <<pc, frame>>
           ELSE /\ pc' = "index"
                /\ frame' = [path |-> path,
                             metadata |-> [nickname |-> repo.name,
                                           packages |-> m.val]]
                /\ ret' = ret
    /\ UNCHANGED <<dicts, dicts0, pkgs, fs, repo, out, hist>>

\* Repository.build: open("BAKERY.toml", "w") in the working directory, then
\* toml.dump(metadata, f, indent=4); whether the installed toml takes the
\* keyword indent is not decided by this repository
RepoBuildIndex ==
    /\ pc = "index"
    /\ \E accepts_indent \in BOOLEAN :
          IF accepts_indent
          THEN /\ out' = WriteFile(out, ".", IndexName, <<frame.metadata>>)
               /\ pc' = "loop"
               /\ UNCHANGED <<frame, ret>>
          ELSE /\ out' = WriteFile(out, ".", IndexName, <<>>)
               /\ pc' = "idle"
               /\ frame' = NoFrame
               /\ ret' = Ret("Repository.build", 0, <<>>,
                             Raise("TypeError", "indent"), EmptyDict)
    /\ UNCHANGED <<dicts, dicts0, pkgs, fs, repo, hist>>

\* Repository.build: the loop 'for package in self.packages' iterates the
\* dict's keys, so its first iteration reads .metadata of a str
RepoBuildLoop ==
    /\ pc = "loop"
    /\ LET r == IF Len(repo.packages) = 0
                THEN Return(None)
                ELSE Raise("AttributeError", "metadata")
       IN  ret' = Ret("Repository.build", 0, <<>>, r, EmptyDict)
    /\ pc' = "idle"
    /\ frame' = NoFrame
    /\ UNCHANGED <<dicts, dicts0, pkgs, fs, repo, out, hist>>

-----------------------------------------------------------------------------
(* The filesystem, changed from outside the program *)

\* a file or directory is created where none is
FsCreate(path, kind) ==
    /\ pc = "idle"
    /\ fs[path] = "absent"
    /\ is_dir(fs, Parent(path))
    /\ path[Len(path)] = InitName => kind = "file"
    /\ fs' = [fs EXCEPT ![path] = kind]
    /\ ret' = Ret("FsCreate", 0, path, Return(None), EmptyDict)
    /\ UNCHANGED <<dicts, dicts0, pkgs, repo, out, pc, frame, hist>>

\* a file or directory is removed, with all it holds
FsRemove(path) ==
    /\ pc = "idle"
    /\ fs[path] # "absent"
    /\ fs' = [q \in DOMAIN fs |->
                 IF Len(q) >= Len(path) /\ SubSeq(q, 1, Len(path)) = path
                 THEN "absent" ELSE fs[q]]
    /\ ret' = Ret("FsRemove", 0, path, Return(None), EmptyDict)
    /\ UNCHANGED <<dicts, dicts0, pkgs, repo, out, pc, frame, hist>>

-----------------------------------------------------------------------------
(* Inputs *)

\* the schema's keys: those without a default, those with one
RecognizedKeys == { PACKAGE_ATTRIBUTES[i].key : i \in 1..Len(PACKAGE_ATTRIBUTES) }
RequiredKeys ==
    { PACKAGE_ATTRIBUTES[i].key :
        i \in { j \in 1..Len(PACKAGE_ATTRIBUTES) : PACKAGE_ATTRIBUTES[j].value = None } }
OptionalKeys == RecognizedKeys \ RequiredKeys

\* a metadata record with the required fields only
RecA ==
    [name |-> "a", author |-> "A", license |-> "MIT",
     copyright |-> "2020", version |-> "1.0.0"]

\* a metadata record with every recognized field and an unknown one
RecB ==
    [name |-> "b", author |-> "B", license |-> "MIT",
     copyright |-> "2020", version |-> "2.0.0", doc |-> "about b",
     maintainer |-> "B", email |-> "b@example.org", homepage |-> "h"]

\* a metadata record without its version
RecBad ==
    [name |-> "c", author |-> "A", license |-> "MIT",
     copyright |-> "2020", doc |-> None]

MainDicts == [d \in {"d1", "d2", "d3"} |->
                 IF d = "d1" THEN RecA ELSE IF d = "d2" THEN RecB ELSE RecBad]

Absent == "<absent>"

\* every record over the recognized keys and one unknown key, a key being
\* absent, None or a string
FillInputs ==
    { [k \in { k \in DOMAIN c : c[k] # Absent } |-> c[k]] :
        c \in [RecognizedKeys \cup {"homepage"} -> {Absent, None, "x"}] }

InitCommon ==
    /\ dicts0 = dicts
    /\ pkgs = [p \in {} |-> 0]
    /\ fs = [path \in FsPaths |-> "absent"]
    /\ repo = [name |-> "bakery", packages |-> <<>>]
    /\ out = {}
    /\ pc = "idle"
    /\ frame = NoFrame
    /\ ret = Ret("none", 0, <<>>, Return(None), EmptyDict)
    /\ hist = [added |-> <<>>, offered |-> NoOffer]

-----------------------------------------------------------------------------
(* The program: packages, modules, the repository *)

Init ==
    /\ dicts = MainDicts
    /\ InitCommon

Next ==
    \/ \E p \in PkgIds, s \in Scripts, d \in DOMAIN dicts : Construct(p, s, d)
    \/ \E p \in PkgIds, path \in ModPaths : AddModule(p, path)
    \/ \E p \in PkgIds : PackageBuild(p)
    \/ \E path \in ModPaths : CallValidModulePath(path)
    \/ \E obj \in PkgIds \cup {NotAPackage} : AddPackage(obj)
    \/ \E key \in {"a", "b"} : DelPackage(key)
    \/ ReadMetadata
    \/ \E path \in OutDirs : RepoBuildCall(path)
    \/ RepoBuildIndex
    \/ RepoBuildLoop
    \/ \E path \in FsPaths, kind \in {"file", "dir"} : FsCreate(path, kind)
    \/ \E path \in FsPaths : FsRemove(path)

Spec == Init /\ [][Next]_vars

-----------------------------------------------------------------------------
(* The same program with the history of add_module and add_package calls *)

NextCalls ==
    \/ \E p \in PkgIds, s \in Scripts, d \in DOMAIN dicts : Construct(p, s, d)
    \/ \E p \in PkgIds, path \in ModPaths : AddModuleLogged(p, path)
    \/ \E p \in PkgIds : PackageBuild(p)
    \/ \E path \in ModPaths : CallValidModulePath(path)
    \/ \E obj \in PkgIds \cup {NotAPackage} : AddPackageLogged(obj)
    \/ \E key \in {"a", "b"} : DelPackage(key)
    \/ ReadMetadata
    \/ \E path \in OutDirs : RepoBuildCall(path)
    \/ RepoBuildIndex
    \/ RepoBuildLoop
    \/ \E path \in FsPaths, kind \in {"file", "dir"} : FsCreate(path, kind)
    \/ \E path \in FsPaths : FsRemove(path)

SpecCalls == Init /\ [][NextCalls]_vars

-----------------------------------------------------------------------------
(* _fill_defaults and Package construction over every input record *)

InitFill ==
    /\ dicts \in [{"d1"} -> FillInputs]
    /\ InitCommon

NextFill ==
    \/ \E d \in DOMAIN dicts : CallFillDefaults(d)
    \/ \E s \in Scripts, d \in DOMAIN dicts : Construct(1, s, d)

SpecFill == InitFill /\ [][NextFill]_vars

-----------------------------------------------------------------------------
(* Vocabulary of the claims *)

\* a field without a value: absent, or null
Missing(rec, k) == k \notin DOMAIN rec \/ rec[k] = None

\* the documented contract of the module validator: an existing file named
\* *.py, or a directory that holds __init__.py
ValidPerContract(kind, path) ==
    \/ kind = "file" /\ EndsWithPy(path[Len(path)])
    \/ kind = "pkgdir"

\* the metadata of Package object p
MetadataOf(p) == dicts[pkgs[p].metadata]

ZipName(name) == <<name, ".zip">>

\* the files Repository.build left in directory dir
FilesIn(dir) == { f \in out : f.dir = dir }

-----------------------------------------------------------------------------
(* C1 *)

\* C1: once a Package is constructed, every step (add_module, build,
\* add_package, a read of Repository.metadata, Repository.build) leaves it
\* constructed with its metadata as it was, and the metadata holds every
\* recognized key, 'name' with a value
C1_MetadataKept ==
    [][ /\ \A p \in DOMAIN pkgs' :
              /\ RecognizedKeys \subseteq DOMAIN dicts'[pkgs'[p].metadata]
              /\ ~Missing(dicts'[pkgs'[p].metadata], "name")
        /\ \A p \in DOMAIN pkgs :
              /\ p \in DOMAIN pkgs'
              /\ pkgs'[p].metadata = pkgs[p].metadata
              /\ dicts'[pkgs'[p].metadata] = dicts[pkgs[p].metadata] ]_vars

\* a package named "a" whose builder has just run, after Repository.build
\* wrote an index, still has its eight keys
C1_Witness ==
    \E p \in DOMAIN pkgs :
        /\ ret.op = "Package.build" /\ ret.pkg = p
        /\ out # {}
        /\ MetadataOf(p)["name"] = "a"
        /\ RecognizedKeys \subseteq DOMAIN MetadataOf(p)

-----------------------------------------------------------------------------
(* C2 *)

\* C2: add_module on a path the validator's contract rejects raises the
\* invalid-module error naming the path and leaves the modules as they were;
\* on a path it accepts, it appends that path and changes nothing else
C2_AddModule ==
    [][ (ret'.op = "add_module" /\ <<ret, pkgs>>' # <<ret, pkgs>>) =>
            IF ValidPerContract(KindOf(fs, ret'.path), ret'.path)
            THEN /\ ret'.exc = None
                 /\ pkgs' = [pkgs EXCEPT ![ret'.pkg].modules = Append(@, ret'.path)]
            ELSE /\ ret'.exc = "PackageError"
                 /\ ret'.arg = ret'.path
                 /\ pkgs' = pkgs ]_vars

-----------------------------------------------------------------------------
(* C3 *)

-----------------------------------------------------------------------------
(* C4 *)

\* C4: on a record with every required field, fill_defaults succeeds, each
\* optional field without a value becomes "", every other field (unknown
\* ones included) keeps its value, no field is added or removed beyond that,
\* and a second application changes nothing
C4_FillDefaults ==
    (/\ ret.op \in {"_fill_defaults", "Package"}
     /\ \A k \in RequiredKeys : ~Missing(ret.input, k))
    => /\ ret.exc = None
       /\ \A d \in DOMAIN dicts :
             /\ DOMAIN dicts[d] = DOMAIN ret.input \cup OptionalKeys
             /\ \A k \in OptionalKeys :
                   Missing(ret.input, k) => dicts[d][k] = ""
             /\ \A k \in DOMAIN ret.input :
                   (k \notin OptionalKeys \/ ret.input[k] # None)
                       => dicts[d][k] = ret.input[k]
             /\ _fill_defaults(dicts[d], PACKAGE_ATTRIBUTES).exc = None
             /\ _fill_defaults(dicts[d], PACKAGE_ATTRIBUTES).data = dicts[d]
             /\ (\A k \in OptionalKeys : ~Missing(ret.input, k))
                    => dicts[d] = ret.input

\* fill_defaults applied again, to a record an earlier application had
\* filled (doc was absent, email null), leaves it as it is
C4_Witness ==
    /\ ret.op = "_fill_defaults"
    /\ ret.exc = None
    /\ "doc" \notin DOMAIN dicts0["d1"]
    /\ "email" \in DOMAIN dicts0["d1"] /\ dicts0["d1"]["email"] = None
    /\ "homepage" \in DOMAIN dicts0["d1"]
    /\ Get(dicts0["d1"], "maintainer", None) = "x"
    /\ ret.input # dicts0["d1"]
    /\ ret.input["doc"] = "" /\ ret.input["email"] = ""
    /\ dicts["d1"] = ret.input

-----------------------------------------------------------------------------
(* C5 *)

\* C5: valid_module_path returns true for an existing *.py file and for a
\* directory holding __init__.py, and returns false, without raising, for
\* any other path
C5_Validator ==
    ret.op = "valid_module_path" =>
        /\ ret.exc = None
        /\ ret.val = ValidPerContract(KindOf(fs, ret.path), ret.path)

-----------------------------------------------------------------------------
(* C6 *)

\* C6: when a path handed to add_module while it was a valid module is no
\* longer one at the time of build, build fails with the invalid-module
\* error for that path
C6_BuildRevalidates ==
    (/\ ret.op = "Package.build"
     /\ hist.offered.pkg = ret.pkg
     /\ ValidPerContract(hist.offered.kind, hist.offered.path)
     /\ ~ValidPerContract(KindOf(fs, hist.offered.path), hist.offered.path))
    => /\ ret.exc = "PackageError"
       /\ ret.arg = hist.offered.path

-----------------------------------------------------------------------------
(* C7 *)

\* C7: build of a package to which a script file was added returns an
\* archive that holds the file under its base name alone, beside the main
\* script entry '{name}.py'
C7_ScriptAtTopLevel ==
    (/\ ret.op = "Package.build"
     /\ hist.offered.pkg = ret.pkg
     /\ hist.offered.kind = "file"
     /\ ValidPerContract(hist.offered.kind, hist.offered.path)
     /\ KindOf(fs, hist.offered.path) = "file")
    => /\ ret.exc = None
       /\ \E i \in 1..Len(ret.val.entries) :
             ret.val.entries[i].arcname =
                 << hist.offered.path[Len(hist.offered.path)] >>
       /\ \E i \in 1..Len(ret.val.entries) :
             ret.val.entries[i].arcname =
                 << PyName(MetadataOf(ret.pkg)["name"]) >>

-----------------------------------------------------------------------------
(* C8, C9, C10 *)

\* the Package objects handed to add_package have pairwise distinct names
DistinctNames ==
    \A i, j \in 1..Len(hist.added) :
        i # j => MetadataOf(hist.added[i])["name"] # MetadataOf(hist.added[j])["name"]

AddedNames == { MetadataOf(hist.added[i])["name"] : i \in 1..Len(hist.added) }

\* C8: after packages with distinct names were added, a completed
\* Repository.build(output_dir) leaves in output_dir one '{name}.zip' per
\* package and the index, whose packages hold each package's metadata
\* without the name key
C8_RepositoryBuild ==
    (/\ ret.op = "Repository.build"
     /\ ret.exc = None
     /\ hist.added # <<>>
     /\ DistinctNames)
    => \A dir \in OutDirs :
          /\ { f.name : f \in FilesIn(dir) }
                = { ZipName(n) : n \in AddedNames } \cup {IndexName}
          /\ \A f \in FilesIn(dir) :
                f.name = IndexName =>
                    /\ Len(f.content) = 1
                    /\ DOMAIN f.content[1].packages = AddedNames
                    /\ \A i \in 1..Len(hist.added) :
                          f.content[1].packages[MetadataOf(hist.added[i])["name"]]
                              = Del(TomlDumps(MetadataOf(hist.added[i])), "name")

\* C9: after two packages of one name were added, a completed
\* Repository.build leaves exactly one '{name}.zip', holding the main script
\* of the one added later
C9_DuplicateName ==
    \A i, j \in 1..Len(hist.added) :
        (/\ ret.op = "Repository.build"
         /\ ret.exc = None
         /\ i < j
         /\ j = Len(hist.added)
         /\ MetadataOf(hist.added[i])["name"] = MetadataOf(hist.added[j])["name"])
        => \A dir \in OutDirs :
              \E f \in FilesIn(dir) :
                  /\ f.name = ZipName(MetadataOf(hist.added[j])["name"])
                  /\ Len(f.content) = 1
                  /\ \E e \in 1..Len(f.content[1].entries) :
                        f.content[1].entries[e].content = pkgs[hist.added[j]].mainscript

\* C10: the index is written only after every package archive: in every
\* state, also inside Repository.build and after a failed one, a written
\* index comes with the archive of every package handed to add_package
C10_IndexLast ==
    (\E f \in out : f.name = IndexName /\ Len(f.content) = 1)
    => \A i \in 1..Len(hist.added) :
          \E f \in out : f.name = ZipName(MetadataOf(hist.added[i])["name"])

====
